---- MODULE Spec2Model ----
(***************************************************************************)
(* A model of scripts/clean_data.py: the class DataPreprocessing and its   *)
(* seven cleaning passes over a pandas DataFrame.                          *)
(*                                                                         *)
(* A DataFrame is a record [cols, dt, animal_dtype, rows]: the set of      *)
(* column names, the dtype of the date_time_of_call column ("object" or    *)
(* "datetime64"), the dtype of the animal_group_parent column ("object",   *)
(* "int64" or "float64") and the sequence of rows; a row is [idx, cells],  *)
(* its index label and the mapping from column name to cell.  A cell is    *)
(* [kind, v]:                                                              *)
(*    "nan"  a missing value (NaN)         "num"  a number                 *)
(*    "inf"  the float infinity            "str"  a string                 *)
(*    "ts"   a parsed Timestamp            "cat"  an ordered categorical   *)
(* A string is the sequence of its Unicode code points, drawn from         *)
(* Alphabet.  A latitude or longitude is a number of hundredths of a       *)
(* degree, rounded down (5150 is 51.50 degrees).  DataFrame objects live   *)
(* in a heap of three addresses, so that in-place mutation and aliasing    *)
(* are visible.                                                            *)
(***************************************************************************)
EXTENDS Integers, Sequences, FiniteSets, TLC

VARIABLES heap, self_data, self_predata, cur, err, calls, pc

vars == <<heap, self_data, self_predata, cur, err, calls, pc>>

\* The largest number of rows of an input table.
MaxRows == 2

(***************************** cells **************************************)

NaN == [kind |-> "nan", v |-> 0]

Inf == [kind |-> "inf", v |-> 0]

Num(x) == [kind |-> "num", v |-> x]

Str(s) == [kind |-> "str", v |-> s]

\* pd.isnull(x)
pd_isnull(x) == x.kind = "nan"

\* Python's bool(x) of a cell: zero and the empty string are false; NaN and
\* every other float or string are true.
Truthy(x) ==
    CASE x.kind = "num" -> x.v # 0
      [] x.kind = "str" -> x.v # <<>>
      [] OTHER -> TRUE

\* x > k of a float cell and an integer: False for NaN, True for +inf.
GreaterThan(x, k) ==
    CASE x.kind = "num" -> x.v > k
      [] x.kind = "inf" -> TRUE
      [] OTHER -> FALSE

(***************************** strings ************************************)

\* The code points the strings of the model are written with: tab, line
\* feed, space and no-break space; + - / : ?; the digits 0-9; the letters
\* C, a, c, i, t; the letters E-acute (capital and small) and capital I with
\* dot above, the combining dot above; the Arabic-Indic digits.
Alphabet ==
    {9, 10, 32, 160} \cup {43, 45, 47, 58, 63} \cup (48..57)
        \cup {67, 97, 99, 105, 116} \cup {201, 233, 304, 775} \cup (1632..1641)

\* str.isspace() of one character, which is also the regular expression \s
IsSpace(c) ==
    c \in (9..13) \cup (28..32) \cup {133, 160, 5760} \cup (8192..8202)
            \cup {8232, 8233, 8239, 8287, 12288}

\* The code points of the digit zero of the decimal digits of Alphabet.
DigitZeros == {48, 1632}

\* str.isdecimal() of one character, which is also the regular expression \d
IsDigit(c) == \E z \in DigitZeros : c \in z..(z + 9)

\* int(c) of one decimal digit
DigitVal(c) == c - (CHOOSE z \in DigitZeros : c \in z..(z + 9))

\* The regular expression [lo-hi] of ASCII digits
AsciiDigit(c, lo, hi) == c \in (48 + lo)..(48 + hi)

\* str.lower() of one character of Alphabet: the ASCII and Latin-1 capitals
\* move to their small letter, capital I with dot above becomes i followed
\* by the combining dot above, every other character is kept.
LowerChar(c) ==
    IF c \in 65..90 THEN <<c + 32>>
    ELSE IF c \in (192..222) \ {215} THEN <<c + 32>>
    ELSE IF c = 304 THEN <<105, 775>>
    ELSE <<c>>

\* str.lower() of a string
RECURSIVE lower(_)
lower(s) == IF s = <<>> THEN <<>> ELSE LowerChar(Head(s)) \o lower(Tail(s))

\* Series.str.lower() of one cell: a string is lowered, anything that is no
\* string (a missing value, a number) becomes NaN.
str_lower(x) == IF x.kind = "str" THEN Str(lower(x.v)) ELSE NaN

\* The dtype pandas gives a column built from values: int64 for numbers
\* only, float64 for numbers and missing values, object for anything else
\* and for a column read with no row.
infer_column_dtype(values) ==
    IF values = <<>> THEN "object"
    ELSE IF \A i \in 1..Len(values) : values[i].kind = "num" THEN "int64"
    ELSE IF \A i \in 1..Len(values) : values[i].kind \in {"nan", "num", "inf"}
    THEN "float64"
    ELSE "object"

\* The check of the .str accessor (AttributeError): a column of a numeric
\* dtype is refused whatever it holds, even nothing; an object column is
\* refused when its values that are not missing are all numbers, and
\* accepted when it holds strings, strings and numbers, or no value.
str_refused(dtype, values) ==
    \/ dtype # "object"
    \/ /\ \E i \in 1..Len(values) : values[i].kind # "nan"
       /\ \A i \in 1..Len(values) : values[i].kind \in {"nan", "num", "inf"}

\* str.strip()
RECURSIVE lstrip(_)
lstrip(s) ==
    IF s # <<>> /\ IsSpace(Head(s)) THEN lstrip(Tail(s)) ELSE s

RECURSIVE rstrip(_)
rstrip(s) ==
    IF s # <<>> /\ IsSpace(s[Len(s)]) THEN rstrip(SubSeq(s, 1, Len(s) - 1)) ELSE s

strip(s) == rstrip(lstrip(s))

\* The number written by the n digits of s from position i on.
RECURSIVE NumberAt(_, _, _)
NumberAt(s, i, n) ==
    IF n = 0 THEN 0 ELSE NumberAt(s, i, n - 1) * 10 + DigitVal(s[i + n - 1])

\* float(x), which pyproj applies to a scalar argument: a number is itself; a
\* string is stripped and read as an optional sign and decimal digits (the
\* other spellings of a float need characters Alphabet does not have);
\* any other string raises.
float(x) ==
    IF x.kind # "str" THEN [ok |-> TRUE, cell |-> x]
    ELSE LET s == strip(x.v)
             signed == s # <<>> /\ s[1] \in {43, 45}
             body == IF signed THEN Tail(s) ELSE s
             n == NumberAt(body, 1, Len(body))
         IN  IF body # <<>> /\ \A i \in 1..Len(body) : IsDigit(body[i])
             THEN [ok |-> TRUE,
                   cell |-> Num(IF signed /\ s[1] = 45 THEN 0 - n ELSE n)]
             ELSE [ok |-> FALSE, cell |-> NaN]

(***************************** timestamps *********************************)

\* The number of characters \s of s from position i on.
RECURSIVE SpaceRun(_, _)
SpaceRun(s, i) ==
    IF i > Len(s) THEN 0
    ELSE IF ~IsSpace(s[i]) THEN 0
    ELSE 1 + SpaceRun(s, i + 1)

CharAt(s, i, c) == i <= Len(s) /\ s[i] = c

\* The regular expressions of the directives, for a match of n characters
\* (2 or 1) at position i:
\*   %d  3[0-1]|[1-2]\d|0[1-9]|[1-9]| [1-9]
\*   %m  1[0-2]|0[1-9]|[1-9]
\*   %H  2[0-3]|[0-1]\d|\d
\*   %M  [0-5]\d|\d
re_d(s, i, n) ==
    IF n = 2
    THEN /\ i + 1 <= Len(s)
         /\ \/ s[i] = 51 /\ AsciiDigit(s[i + 1], 0, 1)
            \/ AsciiDigit(s[i], 1, 2) /\ IsDigit(s[i + 1])
            \/ s[i] = 48 /\ AsciiDigit(s[i + 1], 1, 9)
            \/ s[i] = 32 /\ AsciiDigit(s[i + 1], 1, 9)
    ELSE i <= Len(s) /\ AsciiDigit(s[i], 1, 9)

re_m(s, i, n) ==
    IF n = 2
    THEN /\ i + 1 <= Len(s)
         /\ \/ s[i] = 49 /\ AsciiDigit(s[i + 1], 0, 2)
            \/ s[i] = 48 /\ AsciiDigit(s[i + 1], 1, 9)
    ELSE i <= Len(s) /\ AsciiDigit(s[i], 1, 9)

re_H(s, i, n) ==
    IF n = 2
    THEN /\ i + 1 <= Len(s)
         /\ \/ s[i] = 50 /\ AsciiDigit(s[i + 1], 0, 3)
            \/ AsciiDigit(s[i], 0, 1) /\ IsDigit(s[i + 1])
    ELSE i <= Len(s) /\ IsDigit(s[i])

re_M(s, i, n) ==
    IF n = 2
    THEN i + 1 <= Len(s) /\ AsciiDigit(s[i], 0, 5) /\ IsDigit(s[i + 1])
    ELSE i <= Len(s) /\ IsDigit(s[i])

\* %Y  \d\d\d\d
re_Y(s, i) == i + 3 <= Len(s) /\ \A k \in i..(i + 3) : IsDigit(s[k])

\* int() of the n characters a directive matched: a leading blank is skipped.
FieldVal(s, i, n) ==
    IF n = 2 /\ s[i] = 32 THEN DigitVal(s[i + 1]) ELSE NumberAt(s, i, n)

IsLeap(y) == (y % 4 = 0 /\ y % 100 # 0) \/ y % 400 = 0

DaysInMonth(y, m) ==
    IF m = 2 THEN (IF IsLeap(y) THEN 29 ELSE 28)
    ELSE IF m \in {4, 6, 9, 11} THEN 30 ELSE 31

\* The range of a Timestamp (nanoseconds in 64 bits), to the minute:
\* 1677-09-21 00:13 to 2262-04-11 23:47.
InBounds(ts) ==
    LET date == (ts.year * 100 + ts.month) * 100 + ts.day
        time == ts.hour * 100 + ts.minute
    IN  /\ date > 16770921 \/ (date = 16770921 /\ time >= 13)
        /\ date < 22620411 \/ (date = 22620411 /\ time <= 2347)

\* The lengths of the matches of %d, %m, %H and %M: one or two characters.
Fields == [d : 1..2, m : 1..2, H : 1..2, M : 1..2]

\* Where the matches of %m, %Y, \s+, %H and %M start when the fields have the
\* lengths f.
pos_m(f) == f.d + 2

pos_Y(f) == pos_m(f) + f.m + 1

pos_s(f) == pos_Y(f) + 4

pos_H(s, f) == pos_s(f) + SpaceRun(s, pos_s(f))

pos_M(s, f) == pos_H(s, f) + f.H + 1

\* The regular expression of the format, %d/%m/%Y\s+%H:%M, matches s from its
\* start to its end with fields of the lengths f.  The last directive takes
\* its first alternative that matches, and nothing may be left after it.
matches(s, f) ==
    /\ re_d(s, 1, f.d) /\ CharAt(s, f.d + 1, 47)
    /\ re_m(s, pos_m(f), f.m) /\ CharAt(s, pos_m(f) + f.m, 47)
    /\ re_Y(s, pos_Y(f))
    /\ SpaceRun(s, pos_s(f)) >= 1
    /\ re_H(s, pos_H(s, f), f.H) /\ CharAt(s, pos_H(s, f) + f.H, 58)
    /\ re_M(s, pos_M(s, f), f.M)
    /\ f.M = 1 => ~re_M(s, pos_M(s, f), 2)
    /\ pos_M(s, f) + f.M = Len(s) + 1

\* The date and time the matched fields write.
found(s, f) ==
    [year |-> NumberAt(s, pos_Y(f), 4), month |-> FieldVal(s, pos_m(f), f.m),
     day |-> FieldVal(s, 1, f.d), hour |-> FieldVal(s, pos_H(s, f), f.H),
     minute |-> FieldVal(s, pos_M(s, f), f.M)]

\* One string under format="%d/%m/%Y %H:%M": the regular expression of the
\* format (a blank of the format is \s+) has to match the whole string, the
\* date has to exist and to be in the range of a Timestamp.
strptime(s) ==
    LET parsed == { found(s, f) : f \in { g \in Fields : matches(s, g) } }
    IN  IF \E ts \in parsed : /\ ts.day \in 1..DaysInMonth(ts.year, ts.month)
                              /\ InBounds(ts)
        THEN [ok |-> TRUE, cell |-> [kind |-> "ts", v |-> CHOOSE ts \in parsed : TRUE]]
        ELSE [ok |-> FALSE, cell |-> NaN]

\* pd.to_datetime of one cell: a missing value and the empty string become
\* NaT, a Timestamp stays.
to_datetime(x) ==
    CASE x.kind = "str" ->
            IF x.v = <<>> THEN [ok |-> TRUE, cell |-> NaN] ELSE strptime(x.v)
      [] x.kind = "ts" -> [ok |-> TRUE, cell |-> x]
      [] x.kind = "nan" -> [ok |-> TRUE, cell |-> x]
      [] OTHER -> [ok |-> FALSE, cell |-> NaN]

\* Timestamp.day_of_week, Monday = 0 (Sakamoto's method, as pandas computes it)
SakamotoArr == <<0, 3, 2, 5, 0, 3, 5, 1, 4, 6, 2, 4>>

day_of_week(ts) ==
    LET y == IF ts.month < 3 THEN ts.year - 1 ELSE ts.year
        day == (y + (y \div 4) - (y \div 100) + (y \div 400)
                  + SakamotoArr[ts.month] + ts.day) % 7
    IN  (day + 6) % 7

(***************************** categoricals *******************************)

\* Variant: the categories in lexical order.
month_type_alphabetical ==
    <<"April", "August", "December", "February", "January", "July", "June",
      "March", "May", "November", "October", "September">>

\* pd.CategoricalDtype(categories=[...], ordered=True) of add_columns_for_date
month_type ==
    <<"January", "February", "March", "April", "May", "June", "July",
      "August", "September", "October", "November", "December">>

day_type ==
    <<"Monday", "Tuesday", "Wednesday", "Thursday", "Friday", "Saturday",
      "Sunday">>

\* utils.month_dic and utils.dayofweek_dic: the label of a numeric month
\* (1..12) and of a numeric weekday (0..6, Monday first).
month_dic ==
    [m \in 1..12 |->
        <<"January", "February", "March", "April", "May", "June", "July",
          "August", "September", "October", "November", "December">>[m]]

dayofweek_dic ==
    [d \in 0..6 |->
        <<"Monday", "Tuesday", "Wednesday", "Thursday", "Friday", "Saturday",
          "Sunday">>[d + 1]]

\* DataFrame.replace({column: dic}) of one cell: a value that is a key of the
\* dictionary is replaced, any other value is kept.
replace(dic, x) ==
    IF x.kind = "num" THEN (IF x.v \in DOMAIN dic THEN Str(dic[x.v]) ELSE x)
    ELSE x

\* Series.astype(dtype) of one cell, dtype an ordered categorical: a value
\* among the categories becomes that category (its code is its position, and
\* the order of the codes is the order of the column); any other value is NaN.
astype(x, dtype) ==
    IF x.kind = "str" /\ \E i \in 1..Len(dtype) : dtype[i] = x.v
    THEN [kind |-> "cat",
          v |-> [code |-> (CHOOSE i \in 1..Len(dtype) : dtype[i] = x.v) - 1,
                 label |-> x.v]]
    ELSE NaN

\* a < b of two cells of an ordered categorical column
cat_less(a, b) == a.kind = "cat" /\ b.kind = "cat" /\ a.v.code < b.v.code

(***************************** tables *************************************)

\* del data[key]: the column leaves the table, in every row.
del_column(t, key) ==
    [t EXCEPT !.cols = @ \ {key},
              !.rows = [i \in 1..Len(t.rows) |->
                          [t.rows[i] EXCEPT !.cells =
                              [c \in t.cols \ {key} |-> t.rows[i].cells[c]]]]]

\* data[key] = series: the column is added or replaced, row by row;
\* series is the sequence of the new cells, in row order.
set_column(t, key, series) ==
    [t EXCEPT !.cols = @ \cup {key},
              !.rows = [i \in 1..Len(t.rows) |->
                          [t.rows[i] EXCEPT !.cells =
                              [c \in t.cols \cup {key} |->
                                  IF c = key THEN series[i]
                                  ELSE t.rows[i].cells[c]]]]]

\* Variant: row[key] = value, a write to the copy iterrows() yields, which
\* never reaches the table.
at_set_on_row_copy(t, index, key, value) == t

\* data.at[index, key] = value: the cell of every row labelled index.
at_set(t, index, key, value) ==
    [t EXCEPT !.rows = [i \in 1..Len(t.rows) |->
                          IF t.rows[i].idx = index
                          THEN [t.rows[i] EXCEPT !.cells[key] = value]
                          ELSE t.rows[i]]]

\* The rows of seq that satisfy Keep, in their order.
RECURSIVE select_where(_, _)
select_where(rows, keep) ==
    IF rows = <<>> THEN <<>>
    ELSE IF keep[1] THEN <<Head(rows)>> \o select_where(Tail(rows), Tail(keep))
    ELSE select_where(Tail(rows), Tail(keep))

(***************************** convert_to_latlon **************************)

\* The British National Grid points of the model, each with its latitude and
\* longitude in WGS84 as the inverse transverse Mercator on the Airy 1830
\* ellipsoid and the datum shift of EPSG:27700 give them, in hundredths of a
\* degree rounded down: <<easting, northing, latitude, longitude>>.
\*   530000  180000   51.5040  -0.1284   (London)
\*   530000 -2500000  27.3655  -0.6864
\*   530000 -2150000  30.5237  -0.6460
\*        0        0  49.7668  -7.5572
\*        0  180000   51.3776  -7.7506
\*        0  1000000  58.7018  -8.9120
\*   100000  900000   57.8882  -7.0640
Grid ==
    { <<530000, 180000, 5150, -13>>,
      <<530000, -2500000, 2736, -69>>,
      <<530000, -2150000, 3052, -65>>,
      <<0, 0, 4976, -756>>,
      <<0, 180000, 5137, -776>>,
      <<0, 1000000, 5870, -892>>,
      <<100000, 900000, 5788, -707>> }

\* pyproj.transform(bng, wgs84, x, y), EPSG:27700 to EPSG:4326, which returns
\* (latitude, longitude).  Each argument goes through float(): one that is no
\* number raises TypeError.  The result for a NaN argument depends on the
\* PROJ build (NaN or inf): nan_out is that result.  The planar coordinates
\* of the model are the points of Grid.
transform(x, y, nan_out) ==
    LET fx == float(x)
        fy == float(y)
    IN  IF ~fx.ok \/ ~fy.ok
        THEN [raised |-> TRUE, lat |-> NaN, lon |-> NaN]
        ELSE IF fx.cell.kind # "num" \/ fy.cell.kind # "num"
        THEN [raised |-> FALSE, lat |-> nan_out, lon |-> nan_out]
        ELSE LET g == CHOOSE g \in Grid : g[1] = fx.cell.v /\ g[2] = fy.cell.v
             IN  [raised |-> FALSE, lat |-> Num(g[3]), lon |-> Num(g[4])]

\* The results pyproj.transform can give for a NaN argument.
NanOutcomes == {NaN, Inf}

\* Variant: the test without pd.isnull(row["latitude"]).
needs_transform_no_null_check(cells) == Truthy(cells["easting_rounded"])

\* if pd.isnull(row["latitude"]): if row["easting_rounded"]:
needs_transform(cells) ==
    pd_isnull(cells["latitude"]) /\ Truthy(cells["easting_rounded"])

\* The columns a row of the loop reads that the table does not have (KeyError).
missing_key(t, cells) ==
    \/ "latitude" \notin t.cols
    \/ /\ pd_isnull(cells["latitude"])
       /\ \/ "easting_rounded" \notin t.cols
          \/ /\ Truthy(cells["easting_rounded"])
             /\ "northing_rounded" \notin t.cols

\* for index, row in data.iterrows(): ... from row i on.  The loop writes
\* into the table as it goes and stops at the first exception, leaving the
\* rows before it written.
RECURSIVE latlon_loop(_, _, _, _)
latlon_loop(t, i, made, nan_out) ==
    IF i > Len(t.rows) THEN [t |-> t, err |-> "none", calls |-> made]
    ELSE LET row == t.rows[i]
         IN  IF missing_key(t, row.cells)
             THEN [t |-> t, err |-> "KeyError", calls |-> made]
             ELSE IF needs_transform(row.cells)
             THEN LET x == row.cells["easting_rounded"]
                      y == row.cells["northing_rounded"]
                      r == transform(x, y, nan_out)
                  IN  IF r.raised
                      THEN [t |-> t, err |-> "TypeError",
                            calls |-> Append(made, <<x, y>>)]
                      ELSE latlon_loop(
                               at_set(at_set(t, row.idx, "latitude", r.lat),
                                      row.idx, "longitude", r.lon),
                               i + 1, Append(made, <<x, y>>), nan_out)
             ELSE latlon_loop(t, i + 1, made, nan_out)

\* for key in [...]: if key in data: del data[key]
planar_keys == <<"easting_rounded", "northing_rounded", "easting_m", "northing_m">>

\* Variant: the columns are left in the table.
keep_keys(t, keys) == t

RECURSIVE del_keys(_, _)
del_keys(t, keys) ==
    IF keys = <<>> THEN t
    ELSE del_keys(IF Head(keys) \in t.cols THEN del_column(t, Head(keys)) ELSE t,
                  Tail(keys))

convert_to_latlon_table(t, nan_out) ==
    LET r == latlon_loop(t, 1, <<>>, nan_out)
    IN  IF r.err = "none" THEN [r EXCEPT !.t = del_keys(r.t, planar_keys)] ELSE r

(***************************** the other passes ***************************)

\* data["animal_group_parent"] = data["animal_group_parent"].str.lower()
\* .str on a column it refuses raises AttributeError before the assignment.
lower_case_animal_type_table(t) ==
    LET values == [i \in 1..Len(t.rows) |-> t.rows[i].cells["animal_group_parent"]]
    IN  IF str_refused(t.animal_dtype, values)
        THEN [t |-> t, err |-> "AttributeError"]
        ELSE [t |-> [set_column(t, "animal_group_parent",
                                [i \in 1..Len(t.rows) |-> str_lower(values[i])])
                        EXCEPT !.animal_dtype = "object"],
              err |-> "none"]

\* data["date_time_of_call"] = pd.to_datetime(..., format="%d/%m/%Y %H:%M"):
\* one string that does not parse raises ValueError before the assignment.
convert_to_datetime_format_table(t) ==
    LET parsed == [i \in 1..Len(t.rows) |->
                      to_datetime(t.rows[i].cells["date_time_of_call"])]
    IN  IF \E i \in 1..Len(t.rows) : ~parsed[i].ok
        THEN [t |-> t, err |-> "ValueError"]
        ELSE [t |-> [set_column(t, "date_time_of_call",
                                [i \in 1..Len(t.rows) |-> parsed[i].cell])
                        EXCEPT !.dt = "datetime64"],
              err |-> "none"]

\* Variant: a comparison that lets the threshold and null latitudes through.
coherent_at_least(cells) ==
    GreaterThan(cells["latitude"], 2999) \/ pd_isnull(cells["latitude"])

\* data["latitude"] > 30, in hundredths of a degree
coherent(cells) == GreaterThan(cells["latitude"], 3000)

\* return data[data["latitude"] > 30]: a new table
remove_incoherent_values_table(t) ==
    [t EXCEPT !.rows =
        select_where(t.rows, [i \in 1..Len(t.rows) |-> coherent(t.rows[i].cells)])]

\* Variant: keep="last".
duplicated_keep_last(rows, i) ==
    \E j \in (i + 1)..Len(rows) : rows[j].cells = rows[i].cells

\* DataFrame.duplicated(): a row is a duplicate when a row before it has the
\* same cells in every column (NaN equal to NaN); the index is not compared.
duplicated(rows, i) == \E j \in 1..(i - 1) : rows[j].cells = rows[i].cells

\* Variant: the table is returned as it is.
remove_duplicate_values_same(t) == t

\* data = data.drop_duplicates(): a new table

remove_duplicate_values_table(t) ==
    [t EXCEPT !.rows =
        select_where(t.rows, [i \in 1..Len(t.rows) |-> ~duplicated(t.rows, i)])]

\* utils.delete_feature(data, feature): the column is deleted when the table
\* has it, and the table is returned.
delete_feature(t, feature) ==
    IF feature \in t.cols THEN del_column(t, feature) ELSE t

\* The columns remove_unused_columns deletes, in its order.
unused_columns ==
    <<"incident_number", "type_of_incident", "cal_year", "fin_year", "uprn",
      "usrn", "hourly_notional_cost", "pump_hours_total", "postcode_district",
      "street", "stn_ground_name", "borough_code", "ward", "ward_code",
      "final_description">>

RECURSIVE delete_features(_, _)
delete_features(t, features) ==
    IF features = <<>> THEN t
    ELSE delete_features(delete_feature(t, Head(features)), Tail(features))

remove_unused_columns_table(t) == delete_features(t, unused_columns)

\* add_columns_for_date, its first three assignments, which write into the
\* table it was given:
\*   data["year"] = data["date_time_of_call"].dt.year
\*   data["month"] = data["date_time_of_call"].dt.month
\*   data["dayofweek"] = data["date_time_of_call"].dt.day_of_week
dt_field(x, field) ==
    IF x.kind # "ts" THEN NaN
    ELSE CASE field = "year" -> Num(x.v.year)
           [] field = "month" -> Num(x.v.month)
           [] field = "hour" -> Num(x.v.hour)
           [] field = "day_of_week" -> Num(day_of_week(x.v))

dt_series(t, field) ==
    [i \in 1..Len(t.rows) |-> dt_field(t.rows[i].cells["date_time_of_call"], field)]

add_columns_in_place(t) ==
    LET t1 == set_column(t, "year", dt_series(t, "year"))
        t2 == set_column(t1, "month", dt_series(t, "month"))
    IN  set_column(t2, "dayofweek", dt_series(t, "day_of_week"))

\* ... and the rest, on the new table data.replace returns:
\*   data = data.replace({"month": month_dic})
\*   data = data.replace({"dayofweek": dayofweek_dic})
\*   data["hour"] = data["date_time_of_call"].dt.hour
\*   data["month"] = data["month"].astype(month_type)
\*   data["dayofweek"] = data["dayofweek"].astype(day_type)
add_columns_for_date_table(t) ==
    LET t0 == add_columns_in_place(t)
        t1 == set_column(t0, "month",
                [i \in 1..Len(t0.rows) |-> replace(month_dic, t0.rows[i].cells["month"])])
        t2 == set_column(t1, "dayofweek",
                [i \in 1..Len(t1.rows) |->
                    replace(dayofweek_dic, t1.rows[i].cells["dayofweek"])])
        t3 == set_column(t2, "hour", dt_series(t2, "hour"))
        t4 == set_column(t3, "month",
                [i \in 1..Len(t3.rows) |-> astype(t3.rows[i].cells["month"], month_type)])
    IN  set_column(t4, "dayofweek",
                [i \in 1..Len(t4.rows) |->
                    astype(t4.rows[i].cells["dayofweek"], day_type)])

(***************************** inputs *************************************)

\* "Cat"
Cat == Str(<<67, 97, 116>>)

\* "CÉİ": capital E-acute and capital I with dot above
Accented == Str(<<67, 201, 304>>)

\* "01/06/2022 09:15", a Wednesday in June
Call1 == Str(<<48, 49, 47, 48, 54, 47, 50, 48, 50, 50, 32, 48, 57, 58, 49, 53>>)

\* "31/05/2022 18:38", a Tuesday in May
Call2 == Str(<<51, 49, 47, 48, 53, 47, 50, 48, 50, 50, 32, 49, 56, 58, 51, 56>>)

\* " 1/06/2022<tab>09:15": a blank for the first digit of the day, a tab
\* between date and time
CallBlank == Str(<<32, 49, 47, 48, 54, 47, 50, 48, 50, 50, 9, 48, 57, 58, 49, 53>>)

\* "01/06/2022 09:15" with the Arabic-Indic digit nine in the hour
CallArabic == Str(<<48, 49, 47, 48, 54, 47, 50, 48, 50, 50, 32, 48, 1641, 58, 49, 53>>)

\* "01/01/0000 00:00", outside the range of a Timestamp
CallYear0 == Str(<<48, 49, 47, 48, 49, 47, 48, 48, 48, 48, 32, 48, 48, 58, 48, 48>>)

\* "2022-06-01 09:15", not in the format
CallBad == Str(<<50, 48, 50, 50, 45, 48, 54, 45, 48, 49, 32, 48, 57, 58, 49, 53>>)

Record(inc, call, animal, e, n, lat, lon) ==
    [incident_number |-> Num(inc), date_time_of_call |-> call,
     animal_group_parent |-> animal, easting_m |-> e, northing_m |-> n,
     easting_rounded |-> e, northing_rounded |-> n,
     latitude |-> lat, longitude |-> lon]

\* The rows an input table is made of.
Records ==
    { \* latitude set, and a planar coordinate that reprojects elsewhere
      Record(1, Call1, Cat, Num(530000), Num(180000), Num(5200), Num(0)),
      \* the same but for the incident number
      Record(2, Call1, Cat, Num(530000), Num(180000), Num(5200), Num(0)),
      \* latitude missing, a planar coordinate that reprojects just north of
      \* 30 degrees
      Record(1, Call2, Accented, Num(530000), Num(-2150000), NaN, NaN),
      \* latitude missing, a planar coordinate south of 30 degrees written as
      \* strings, "530000" and "-2500000"
      Record(1, CallArabic, Cat, Str(<<53, 51, 48, 48, 48, 48>>),
             Str(<<45, 50, 53, 48, 48, 48, 48, 48>>), NaN, NaN),
      \* latitude missing, easting zero: a planar coordinate on the western
      \* edge of the grid, which reprojects to 51.37 degrees
      Record(1, CallBlank, Cat, Num(0), Num(180000), NaN, NaN),
      \* latitude missing, easting missing, and a timestamp that does not parse
      Record(1, CallBad, Cat, NaN, NaN, NaN, NaN),
      \* latitude missing, easting no number ("?"), a number for the animal
      \* and a timestamp out of range
      Record(1, CallYear0, Num(5), Str(<<63>>), Str(<<63>>), NaN, NaN),
      \* a latitude on the threshold
      Record(1, Call2, Cat, Num(530000), Num(180000), Num(3000), Num(0)) }

\* pd.DataFrame of the records, as read: a RangeIndex, strings in the date column.
DataFrame(records) ==
    [cols |-> {"incident_number", "date_time_of_call", "animal_group_parent",
               "easting_m", "northing_m", "easting_rounded", "northing_rounded",
               "latitude", "longitude"},
     dt |-> "object",
     animal_dtype |->
         infer_column_dtype([i \in 1..Len(records) |-> records[i].animal_group_parent]),
     rows |-> [i \in 1..Len(records) |-> [idx |-> i - 1, cells |-> records[i]]]]

Inputs ==
    { DataFrame(records) : records \in UNION { [1..n -> Records] : n \in 0..MaxRows } }

(***************************** the object *********************************)

\* The heap: the caller's table, the copy the constructor makes, and the
\* table a pass that builds a new one returns (the one it replaces is no
\* longer referenced).
Addresses == {"input", "copy", "result"}

\* Variant: self._predata = data, without the copy.
init_no_copy(data) ==
    [heap |-> [a \in Addresses |-> data], self_data |-> "input",
     self_predata |-> "input"]

\* def __init__(self, data): self._data = data; self._predata = data.copy()
\* (nothing refers to the address "result" until a pass returns a new table)
init(data) ==
    [heap |-> [a \in Addresses |-> data], self_data |-> "input",
     self_predata |-> "copy"]

Init ==
    \E data \in Inputs :
        /\ heap = init(data).heap
        /\ self_data = init(data).self_data
        /\ self_predata = init(data).self_predata
        /\ cur = "input"
        /\ err = "none"
        /\ calls = <<>>
        /\ pc = 0

\* The passes in the order of the pipeline.
Pipeline ==
    <<"convert_to_latlon", "lower_case_animal_type", "convert_to_datetime_format",
      "remove_incoherent_values", "remove_duplicate_values",
      "remove_unused_columns", "add_columns_for_date">>

\* The position in the pipeline after the pass name: k when the passes so far
\* are the first k of the pipeline, OffPipeline otherwise.
OffPipeline == Len(Pipeline) + 1

Advance(name) ==
    IF pc < Len(Pipeline) /\ Pipeline[pc + 1] = name THEN pc + 1 ELSE OffPipeline

\* A pass called on the working table: the position moves when it returns.
Called(name, raised) == pc' = IF raised THEN pc ELSE Advance(name)

(***************************** the passes *********************************)

\* An exception leaves the method and ends the run: no pass follows it.
convert_to_latlon ==
    /\ err = "none"
    /\ \E nan_out \in NanOutcomes :
          LET r == convert_to_latlon_table(heap[cur], nan_out)
          IN  /\ heap' = [heap EXCEPT ![cur] = r.t]
              /\ err' = r.err
              /\ calls' = calls \o r.calls
              /\ Called("convert_to_latlon", r.err # "none")
    /\ UNCHANGED <<self_data, self_predata, cur>>

lower_case_animal_type ==
    /\ err = "none"
    /\ LET r == lower_case_animal_type_table(heap[cur])
       IN  /\ heap' = [heap EXCEPT ![cur] = r.t]
           /\ err' = r.err
           /\ Called("lower_case_animal_type", r.err # "none")
    /\ UNCHANGED <<self_data, self_predata, cur, calls>>

convert_to_datetime_format ==
    /\ err = "none"
    /\ LET r == convert_to_datetime_format_table(heap[cur])
       IN  /\ heap' = [heap EXCEPT ![cur] = r.t]
           /\ err' = r.err
           /\ Called("convert_to_datetime_format", r.err # "none")
    /\ UNCHANGED <<self_data, self_predata, cur, calls>>

remove_incoherent_values ==
    /\ err = "none"
    /\ heap' = [heap EXCEPT !["result"] = remove_incoherent_values_table(heap[cur])]
    /\ cur' = "result"
    /\ Called("remove_incoherent_values", FALSE)
    /\ UNCHANGED <<self_data, self_predata, err, calls>>

remove_duplicate_values ==
    /\ err = "none"
    /\ heap' = [heap EXCEPT !["result"] = remove_duplicate_values_table(heap[cur])]
    /\ cur' = "result"
    /\ Called("remove_duplicate_values", FALSE)
    /\ UNCHANGED <<self_data, self_predata, err, calls>>

remove_unused_columns ==
    /\ err = "none"
    /\ heap' = [heap EXCEPT ![cur] = remove_unused_columns_table(heap[cur])]
    /\ Called("remove_unused_columns", FALSE)
    /\ UNCHANGED <<self_data, self_predata, cur, err, calls>>

\* .dt on a column that is not datetime64 raises AttributeError, before the
\* first assignment.
add_columns_for_date ==
    /\ err = "none"
    /\ IF heap[cur].dt # "datetime64"
       THEN /\ err' = "AttributeError"
            /\ Called("add_columns_for_date", TRUE)
            /\ UNCHANGED <<heap, cur>>
       ELSE /\ heap' = [[heap EXCEPT ![cur] = add_columns_in_place(heap[cur])]
                           EXCEPT !["result"] = add_columns_for_date_table(heap[cur])]
            /\ cur' = "result"
            /\ err' = "none"
            /\ Called("add_columns_for_date", FALSE)
    /\ UNCHANGED <<self_data, self_predata, calls>>

Next ==
    \/ convert_to_latlon
    \/ lower_case_animal_type
    \/ convert_to_datetime_format
    \/ remove_incoherent_values
    \/ remove_duplicate_values
    \/ remove_unused_columns
    \/ add_columns_for_date

Spec == Init /\ [][Next]_vars

(***************************** the claims *********************************)

Working == heap[cur]

\* The table as loaded, which the constructor copied.
Original == heap[self_predata]

PlanarColumns == {"easting_rounded", "northing_rounded", "easting_m", "northing_m"}

\* A value that is present: not null and not zero.
Present(x) == ~pd_isnull(x) /\ ~(x.kind = "num" /\ x.v = 0)

\* A value that reads as a number.
Numeric(x) == float(x).ok /\ float(x).cell.kind = "num"

HasRow(t, index) == \E i \in 1..Len(t.rows) : t.rows[i].idx = index

RowAt(t, index) == t.rows[CHOOSE i \in 1..Len(t.rows) : t.rows[i].idx = index]

\* A row of the loaded table with a null latitude and a planar coordinate.
Derivable(cells) ==
    /\ pd_isnull(cells["latitude"])
    /\ Present(cells["easting_rounded"])
    /\ Numeric(cells["easting_rounded"])
    /\ Numeric(cells["northing_rounded"])

Reprojected(cells) ==
    transform(cells["easting_rounded"], cells["northing_rounded"], NaN)

C1_Step ==
    (convert_to_latlon /\ err' = "none") =>
        /\ heap'[cur'].cols \cap PlanarColumns = {}
        /\ Len(heap'[cur'].rows) = Len(heap[cur].rows)
        /\ \A i \in 1..Len(heap[cur].rows) :
              LET cells == heap[cur].rows[i].cells
              IN  ("easting_rounded" \in heap[cur].cols /\ Derivable(cells)) =>
                      /\ heap'[cur'].rows[i].cells["latitude"] = Reprojected(cells).lat
                      /\ heap'[cur'].rows[i].cells["longitude"] = Reprojected(cells).lon

\* C1: when convert_to_latlon returns, every row that had a null latitude and
\* a non-null, non-zero easting_rounded has the reprojection of its planar
\* pair as latitude and longitude, and the table has none of the columns
\* easting_rounded, northing_rounded, easting_m, northing_m.
C1_FillsAndDropsPlanar == [][C1_Step]_vars

\* convert_to_latlon alone has run, on a table with a row to reproject.
C1_Witness ==
    /\ pc = 1 /\ err = "none"
    /\ Working.cols \cap PlanarColumns = {}
    /\ \E i \in 1..Len(Original.rows) :
          /\ Derivable(Original.rows[i].cells)
          /\ Working.rows[i].cells["latitude"] = Num(3052)
          /\ Working.rows[i].cells["longitude"] = Num(-65)

C2_Step ==
    convert_to_latlon =>
        /\ Len(heap'[cur'].rows) = Len(heap[cur].rows)
        /\ \A i \in 1..Len(heap[cur].rows) :
              LET cells == heap[cur].rows[i].cells
              IN  ~pd_isnull(cells["latitude"]) =>
                      \A c \in heap[cur].cols \ PlanarColumns :
                          heap'[cur'].rows[i].cells[c] = cells[c]

\* C2: convert_to_latlon leaves every row whose latitude is not null as it
\* was in latitude, longitude and every other column that is not planar,
\* also when the row has a planar coordinate.
C2_KeepsGeographic == [][C2_Step]_vars

\* convert_to_latlon has run on a row with a latitude and a planar coordinate
\* that reprojects to another latitude, and the latitude is the one it had.
C2_Witness ==
    /\ pc = 1 /\ err = "none"
    /\ \E i \in 1..Len(Original.rows) :
          LET cells == Original.rows[i].cells
          IN  /\ ~pd_isnull(cells["latitude"])
              /\ Present(cells["easting_rounded"])
              /\ Numeric(cells["easting_rounded"])
              /\ Reprojected(cells).lat # cells["latitude"]
              /\ Working.rows[i].cells["latitude"] = cells["latitude"]
              /\ Working.rows[i].cells["longitude"] = cells["longitude"]

C3_Step ==
    (convert_to_latlon /\ PlanarColumns \subseteq heap[cur].cols) =>
        /\ \A k \in (Len(calls) + 1)..Len(calls') : Present(calls'[k][1])
        /\ \A i \in 1..Len(heap[cur].rows) :
              LET cells == heap[cur].rows[i].cells
              IN  (/\ pd_isnull(cells["latitude"])
                   /\ \/ pd_isnull(cells["easting_rounded"])
                      \/ ~Truthy(cells["easting_rounded"])) =>
                      /\ pd_isnull(heap'[cur'].rows[i].cells["latitude"])
                      /\ pd_isnull(heap'[cur'].rows[i].cells["longitude"])
        /\ (\A i \in 1..Len(heap[cur].rows) :
               heap[cur].rows[i].cells["easting_rounded"].kind \in {"nan", "num"})
              => err' = "none"

\* C3: convert_to_latlon passes to pyproj.transform only the planar pairs of
\* rows whose easting_rounded is present (not null, not zero); a row with a
\* null latitude and a null or zero easting_rounded keeps a null latitude and
\* longitude, and does not make the pass fail.
C3_OnlyPresentEastingReprojected == [][C3_Step]_vars

C4_Step ==
    remove_incoherent_values =>
        /\ \A j \in 1..Len(heap'[cur'].rows) :
              LET lat == heap'[cur'].rows[j].cells["latitude"]
              IN  ~pd_isnull(lat) /\ ~(lat.kind = "num" /\ lat.v <= 3000)
        /\ heap'[cur'].rows =
              SelectSeq(heap[cur].rows,
                        LAMBDA r : \/ r.cells["latitude"].kind = "inf"
                                   \/ /\ r.cells["latitude"].kind = "num"
                                      /\ r.cells["latitude"].v > 3000)
        /\ heap'[cur'].cols = heap[cur].cols

\* C4: the table remove_incoherent_values returns has no row with a latitude
\* <= 30 degrees or null, and has every row with a latitude > 30 of the table it was
\* given, unchanged and in the same order.
C4_NoLowLatitude == [][C4_Step]_vars

\* The pipeline is past remove_incoherent_values: a row with latitude 30 is
\* gone, a row with a null latitude is gone, a row with latitude > 30 is kept.
C4_Witness ==
    /\ pc = 4 /\ err = "none"
    /\ Len(Working.rows) = 1
    /\ GreaterThan(Working.rows[1].cells["latitude"], 3000)
    /\ \E i \in 1..Len(Original.rows) :
          /\ ~HasRow(Working, Original.rows[i].idx)
          /\ \/ Original.rows[i].cells["latitude"] = Num(3000)
             \/ /\ pd_isnull(Original.rows[i].cells["latitude"])
                /\ ~Truthy(Original.rows[i].cells["easting_rounded"])

C5_Step ==
    remove_duplicate_values =>
        LET old == heap[cur].rows
            new == heap'[cur'].rows
        IN  /\ \A i, j \in 1..Len(new) : i # j => new[i].cells # new[j].cells
            /\ \A i \in 1..Len(old) : \E j \in 1..Len(new) : new[j].cells = old[i].cells
            /\ \A j \in 1..Len(new) :
                  \E i \in 1..Len(old) :
                      /\ old[i] = new[j]
                      /\ \A h \in 1..(i - 1) : old[h].cells # old[i].cells
            /\ \A i, j \in 1..Len(new) : i < j => new[i].idx < new[j].idx
            /\ heap'[cur'].cols = heap[cur].cols

\* C5: the table remove_duplicate_values returns has no two rows with the
\* same cells in every column; of the rows with the same cells it has the
\* first, every distinct row is still there, and the rows are in the order
\* they had.
C5_FirstOccurrenceKept == [][C5_Step]_vars

\* The pipeline is past remove_duplicate_values, which removed the second of
\* two rows that passed the filter.
C5_Witness ==
    /\ pc = 5 /\ err = "none"
    /\ \E i, j \in 1..Len(Original.rows) :
          /\ i < j
          /\ Original.rows[i].cells = Original.rows[j].cells
          /\ GreaterThan(Original.rows[j].cells["latitude"], 3000)
          /\ HasRow(Working, Original.rows[i].idx)
          /\ ~HasRow(Working, Original.rows[j].idx)

\* A row of the loaded table with a null latitude and a planar coordinate
\* that reprojects, whatever its easting.
HasPlanar(cells) ==
    /\ pd_isnull(cells["latitude"])
    /\ Numeric(cells["easting_rounded"])
    /\ Numeric(cells["northing_rounded"])

\* The row of the loaded table is in the working table with the latitude its
\* planar coordinate reprojects to.
Resolved(row) ==
    /\ HasRow(Working, row.idx)
    /\ RowAt(Working, row.idx).cells["latitude"] = Reprojected(row.cells).lat

\* C6 as claimed: when the passes run in the order of the pipeline, every row
\* loaded with a null latitude whose planar coordinate reprojects to a
\* latitude > 30 is in the table remove_incoherent_values returns, with the
\* reprojected latitude.
C6_EveryPlanarRowResolved ==
    (pc = 4 /\ err = "none") =>
        \A i \in 1..Len(Original.rows) :
            LET row == Original.rows[i]
            IN  (/\ HasPlanar(row.cells)
                 /\ GreaterThan(Reprojected(row.cells).lat, 3000)) => Resolved(row)

\* C6 as amended: when the passes run in the order of the pipeline, every row
\* loaded with a null latitude and an easting_rounded that is not zero, whose
\* planar coordinate reprojects to a latitude > 30, is in the table
\* remove_incoherent_values returns, with the reprojected latitude.
C6_ResolvedBeforeFilter ==
    (pc = 4 /\ err = "none") =>
        \A i \in 1..Len(Original.rows) :
            LET row == Original.rows[i]
            IN  (/\ Derivable(row.cells)
                 /\ GreaterThan(Reprojected(row.cells).lat, 3000)) => Resolved(row)

\* The filter has run fourth, on a row resolved from its planar coordinate
\* and kept, and on a row with easting zero whose planar coordinate reprojects
\* to a latitude > 30, which was not resolved and is gone.
C6_Witness ==
    /\ pc = 4 /\ err = "none"
    /\ \E i, j \in 1..Len(Original.rows) :
          /\ Derivable(Original.rows[i].cells)
          /\ GreaterThan(Reprojected(Original.rows[i].cells).lat, 3000)
          /\ Resolved(Original.rows[i])
          /\ HasPlanar(Original.rows[j].cells)
          /\ ~Truthy(Original.rows[j].cells["easting_rounded"])
          /\ GreaterThan(Reprojected(Original.rows[j].cells).lat, 3000)
          /\ ~HasRow(Working, Original.rows[j].idx)

\* C7: no pass changes the table self._predata refers to: after every step
\* it has the rows, columns and values it had before the step.
C7_PredataNeverMutated == [][heap'[self_predata'] = heap[self_predata]]_vars

\* The seven passes have run, the caller's table self._data was written in
\* place, and the copy is still the table as loaded.
C7_Witness ==
    /\ pc = 7 /\ err = "none"
    /\ Len(Original.rows) > 0
    /\ heap[self_data] # Original
    /\ Working # Original
    /\ Original.dt = "object"
    /\ PlanarColumns \subseteq Original.cols

\* No row of the table has a null easting_rounded (the rows C3 is about).
NoNullEasting(t) ==
    "easting_rounded" \in t.cols =>
        \A i \in 1..Len(t.rows) : ~pd_isnull(t.rows[i].cells["easting_rounded"])

C8_Step ==
    /\ err = "none"
    /\ (err' # "none" /\ NoNullEasting(heap[cur])) => heap'[cur'] = heap[cur]

\* C8: a pass that fails leaves no partial result: no pass runs after a
\* failure, and the pass that raised (convert_to_latlon on a row that does
\* not reproject, convert_to_datetime_format on a timestamp that does not
\* parse) leaves the table with none of its rows converted.  Tables with a
\* null easting_rounded are left out, so that the rows of C3 play no part.
C8_NoPartialSuccess == [][C8_Step]_vars

MonthNames ==
    <<"January", "February", "March", "April", "May", "June", "July",
      "August", "September", "October", "November", "December">>

DayNames ==
    <<"Monday", "Tuesday", "Wednesday", "Thursday", "Friday", "Saturday", "Sunday">>

C9_Step ==
    (add_columns_for_date /\ err' = "none") =>
        LET new == heap'[cur'].rows
            ts(i) == new[i].cells["date_time_of_call"].v
        IN  /\ Len(new) = Len(heap[cur].rows)
            /\ \A i \in 1..Len(new) :
                  new[i].cells["date_time_of_call"].kind = "ts" =>
                      /\ new[i].cells["year"] = Num(ts(i).year)
                      /\ new[i].cells["hour"] = Num(ts(i).hour)
                      /\ ts(i).hour \in 0..23
                      /\ new[i].cells["month"].kind = "cat"
                      /\ new[i].cells["month"].v.label = MonthNames[ts(i).month]
                      /\ new[i].cells["dayofweek"].kind = "cat"
                      /\ new[i].cells["dayofweek"].v.label
                            = DayNames[day_of_week(ts(i)) + 1]
            /\ \A i, j \in 1..Len(new) :
                  (/\ new[i].cells["date_time_of_call"].kind = "ts"
                   /\ new[j].cells["date_time_of_call"].kind = "ts") =>
                      /\ cat_less(new[i].cells["month"], new[j].cells["month"])
                            <=> ts(i).month < ts(j).month
                      /\ cat_less(new[i].cells["dayofweek"], new[j].cells["dayofweek"])
                            <=> day_of_week(ts(i)) < day_of_week(ts(j))

\* C9: the table add_columns_for_date returns has, in every row with a parsed
\* date_time_of_call, year and hour (0..23) of the date-time, month the name
\* of its numeric month among January..December and dayofweek the name of its
\* numeric weekday among Monday..Sunday; and one month (weekday) label is less
\* than another exactly when its numeric month (weekday) is less.
C9_CalendarFields == [][C9_Step]_vars

\* The pipeline has ended on a call of 01/06/2022 09:15 and a call of
\* 31/05/2022 18:38: Wednesday in June, and May sorts before June.
C9_Witness ==
    /\ pc = 7 /\ err = "none"
    /\ \E i, j \in 1..Len(Working.rows) :
          /\ Working.rows[i].cells["year"] = Num(2022)
          /\ Working.rows[i].cells["month"].v.label = "June"
          /\ Working.rows[i].cells["dayofweek"].v.label = "Wednesday"
          /\ Working.rows[i].cells["hour"] = Num(9)
          /\ Working.rows[j].cells["month"].v.label = "May"
          /\ Working.rows[j].cells["dayofweek"].v.label = "Tuesday"
          /\ Working.rows[j].cells["hour"] = Num(18)
          /\ cat_less(Working.rows[j].cells["month"], Working.rows[i].cells["month"])

SameOutput(i, j) == Working.rows[i].cells = Working.rows[j].cells

\* C10 as claimed: when the seven passes have run in the order of the
\* pipeline, no two rows of the output have the same cells in every column.
C10_NoIdenticalOutputRows ==
    (pc = 7 /\ err = "none") =>
        \A i, j \in 1..Len(Working.rows) : i # j => ~SameOutput(i, j)

\* C10 as amended: when the seven passes have run in the order of the
\* pipeline, two rows of the output have the same cells in every column only
\* if they were loaded with different values in a column that
\* remove_unused_columns deletes after remove_duplicate_values has run.
C10_IdenticalOnlyByPrunedColumns ==
    (pc = 7 /\ err = "none") =>
        \A i, j \in 1..Len(Working.rows) :
            (i # j /\ SameOutput(i, j)) =>
                \E k \in 1..Len(unused_columns) :
                    /\ unused_columns[k] \in Original.cols
                    /\ RowAt(Original, Working.rows[i].idx).cells[unused_columns[k]]
                          # RowAt(Original, Working.rows[j].idx).cells[unused_columns[k]]

\* The pipeline has ended with two identical rows, loaded with different
\* incident numbers.
C10_Witness ==
    /\ pc = 7 /\ err = "none"
    /\ \E i, j \in 1..Len(Working.rows) :
          /\ i # j
          /\ SameOutput(i, j)
          /\ RowAt(Original, Working.rows[i].idx).cells["incident_number"]
                # RowAt(Original, Working.rows[j].idx).cells["incident_number"]

====
